---- MODULE Spec2Model ----
(***************************************************************************)
(* Model of the watermark-driven sync loop of the ecobee -> InfluxDB       *)
(* connector (main loop and doUpdate of the main package).                 *)
(*                                                                         *)
(* Instants (Go time.Time) are whole hours since 0001-01-01 00:00, the     *)
(* zero value of time.Time.  Strings are sequences of one-character        *)
(* strings, so that formatting, parsing and trimming are computed.         *)
(***************************************************************************)
EXTENDS Integers, Sequences, FiniteSets, TLC

\* ---------------------------------------------------------------- bounds
\* planning passes of the main loop over all runs of the process
MaxPasses == 2
\* clock ticks the environment may take
MaxTicks == 1

\* ------------------------------------------------------- program constants
\* retry.Do is called without options: the library default of 10 attempts
RetryAttempts == 10
\* the thermostats named by config.ThermostatID (comma separated list)
Thermostats == {"t1", "t2"}
\* hours the clock advances per tick of the environment
TickHours == 14

\* the value of a local that has not been assigned in the running attempt
Unset == "unset"
\* doUpdate's maps before the fetch that assigns them
NotFetched == {Unset}
\* the exit status of a process that has not exited
NoExit == -1
\* a watermark file that does not exist
Missing == <<"missing">>

\* ------------------------------------------------------------ calendar
Digits == <<"0", "1", "2", "3", "4", "5", "6", "7", "8", "9">>

IsDigit(c) == \E i \in 1..10 : Digits[i] = c

DigitVal(c) == (CHOOSE i \in 1..10 : Digits[i] = c) - 1

DigitChar(n) == Digits[n + 1]

IsLeap(y) == (y % 4 = 0) /\ ((y % 100 # 0) \/ (y % 400 = 0))

DaysIn(m, y) ==
  IF m = 2 THEN (IF IsLeap(y) THEN 29 ELSE 28)
  ELSE IF m \in {4, 6, 9, 11} THEN 30 ELSE 31

\* days from 0001-01-01 to the civil date y-m-d (proleptic Gregorian)
DaysFromCivil(y, m, d) ==
  LET yy  == IF m <= 2 THEN y - 1 ELSE y
      era == yy \div 400
      yoe == yy - era * 400
      mp  == (m + 9) % 12
      doy == ((153 * mp + 2) \div 5) + d - 1
      doe == yoe * 365 + (yoe \div 4) - (yoe \div 100) + doy
  IN  era * 146097 + doe - 306

\* the civil date <<y, m, d>> of a day count from 0001-01-01
CivilFromDays(n) ==
  LET z   == n + 306
      era == z \div 146097
      doe == z - era * 146097
      yoe == (doe - (doe \div 1460) + (doe \div 36524) - (doe \div 146096)) \div 365
      y   == yoe + era * 400
      doy == doe - (365 * yoe + (yoe \div 4) - (yoe \div 100))
      mp  == (5 * doy + 2) \div 153
      d   == doy - ((153 * mp + 2) \div 5) + 1
      m   == IF mp < 10 THEN mp + 3 ELSE mp - 9
  IN  << (IF m <= 2 THEN y + 1 ELSE y), m, d >>

\* the instant y-m-d h:00
Instant(y, m, d, h) == DaysFromCivil(y, m, d) * 24 + h

Pad2(n) == << DigitChar((n \div 10) % 10), DigitChar(n % 10) >>

Pad4(n) == << DigitChar((n \div 1000) % 10), DigitChar((n \div 100) % 10),
              DigitChar((n \div 10) % 10), DigitChar(n % 10) >>

\* t.Format("2006-01-02")
Format(t) ==
  LET c == CivilFromDays(t \div 24)
  IN  Pad4(c[1]) \o <<"-">> \o Pad2(c[2]) \o <<"-">> \o Pad2(c[3])

\* time.Parse("2006-01-02", s): four digits, '-', two digits, '-', two
\* digits and nothing else, month and day in range.  On an error the
\* returned time is the zero time.Time.
Parse(s) ==
  IF /\ Len(s) = 10
     /\ \A i \in {1, 2, 3, 4, 6, 7, 9, 10} : IsDigit(s[i])
     /\ s[5] = "-" /\ s[8] = "-"
  THEN LET y == DigitVal(s[1]) * 1000 + DigitVal(s[2]) * 100
                + DigitVal(s[3]) * 10 + DigitVal(s[4])
           m == DigitVal(s[6]) * 10 + DigitVal(s[7])
           d == DigitVal(s[9]) * 10 + DigitVal(s[10])
       IN  IF m >= 1 /\ m <= 12 /\ d >= 1 /\ d <= DaysIn(m, y)
           THEN [ok |-> TRUE, t |-> Instant(y, m, d, 0)]
           ELSE [ok |-> FALSE, t |-> 0]
  ELSE [ok |-> FALSE, t |-> 0]

\* unicode.IsSpace: the characters of Unicode's White_Space property, those
\* past '\r' written by their code points
IsSpace(c) ==
  c \in {" ", "\n", "\t", "\r", "\f", "U+000B", "U+0085", "U+00A0", "U+1680",
         "U+2000", "U+2001", "U+2002", "U+2003", "U+2004", "U+2005",
         "U+2006", "U+2007", "U+2008", "U+2009", "U+200A", "U+2028",
         "U+2029", "U+202F", "U+205F", "U+3000"}

\* strings.TrimSpace
TrimSpace(s) ==
  LET keep == {i \in 1..Len(s) : ~IsSpace(s[i])}
  IN  IF keep = {} THEN <<>>
      ELSE LET lo == CHOOSE i \in keep : \A j \in keep : i <= j
               hi == CHOOSE i \in keep : \A j \in keep : i >= j
           IN  SubSeq(s, lo, hi)

\* string(lastDataBytes) after ioutil.ReadFile with its error dropped
ReadFile(f) == IF f = Missing THEN <<>> ELSE f

\* []byte(end_str + "\n")
WatermarkBytes(end_str) == end_str \o <<"\n">>

\* a.Before(b), a.After(b)
Before(a, b) == a < b

After(a, b) == a > b

\* ------------------------------------------------------------ humidity
\* Temperatures are counted in tenths of a degree Fahrenheit.
Degrees(k) == 10 * k

IndoorHumidityRecommendationStrict(outdoorTempF) ==
  IF outdoorTempF > Degrees(50) THEN 50
  ELSE IF outdoorTempF > Degrees(40) THEN 45
  ELSE IF outdoorTempF > Degrees(30) THEN 40
  ELSE IF outdoorTempF > Degrees(20) THEN 35
  ELSE IF outdoorTempF > Degrees(10) THEN 30
  ELSE IF outdoorTempF > Degrees(0) THEN 25
  ELSE IF outdoorTempF > Degrees(-10) THEN 20
  ELSE 15

\* the maximum recommended indoor relative humidity, in percent
IndoorHumidityRecommendation(outdoorTempF) ==
  IF outdoorTempF >= Degrees(50) THEN 50
  ELSE IF outdoorTempF >= Degrees(40) THEN 45
  ELSE IF outdoorTempF >= Degrees(30) THEN 40
  ELSE IF outdoorTempF >= Degrees(20) THEN 35
  ELSE IF outdoorTempF >= Degrees(10) THEN 30
  ELSE IF outdoorTempF >= Degrees(0) THEN 25
  ELSE IF outdoorTempF >= Degrees(-10) THEN 20
  ELSE 15

\* ------------------------------------------------------------ planner
\* whole days of the projected window: start.Add(14 * 24 * time.Hour)
BatchDays == 14

\* yesterday: now.Add(-24h) formatted as a date and parsed back
Yesterday(t) == Parse(Format(t - 24)).t

LeftOffForgets(lastData) == 0

\* left_off: the parsed watermark, the zero time when it does not parse
LeftOff(lastData) == Parse(lastData).t

\* mutant: nothing to do only when the watermark is after yesterday
NothingToDoAfter(lo, y) == After(lo, y)

\* if !left_off.Before(yesterday) { "Nothing to do!"; os.Exit(0) }
NothingToDo(lo, y) == ~Before(lo, y)

\* start, projected_end and end of the main loop
PlanWindow(lo, y) ==
  LET start         == lo + 24
      projected_end == start + BatchDays * 24
  IN  [start |-> start,
       end   |-> IF After(projected_end, y) THEN y ELSE projected_end]

\* mutant: one attempt more than configured
LastAttemptOffByOne(n) == n > RetryAttempts

\* retry.Do stops after the attempt with index attempts - 1
LastAttempt(n) == n >= RetryAttempts

\* ------------------------------------------------------------ requests
\* A string is a sequence of tokens: single characters, and the words of the
\* vendor's and the sink's vocabulary (column and field names), which hold
\* no separator.

\* strings.Join(a, sep)
RECURSIVE Join(_, _)
Join(a, sep) ==
  IF Len(a) = 0 THEN <<>>
  ELSE IF Len(a) = 1 THEN a[1]
  ELSE a[1] \o sep \o Join(Tail(a), sep)

\* the names of the seven column flags of the configuration
FlagNames == {"WriteHumidifier", "WriteAuxHeat1", "WriteAuxHeat2",
              "WriteHeatPump1", "WriteHeatPump2", "WriteCool1", "WriteCool2"}

\* the columns every report request names
CoreColumns == << <<"zoneCoolTemp">>, <<"zoneHeatTemp">>, <<"zoneAveTemp">>,
                  <<"zoneHumidity">>, <<"outdoorTemp">>, <<"outdoorHumidity">>,
                  <<"fan">> >>

\* the column a flag appends, if it is set
Opt(on, col) == IF on THEN << <<col>> >> ELSE <<>>

\* col_to_include of GetRuntimeReport; no branch reads WriteHeatPump2
ColumnsToInclude(fl) ==
  CoreColumns
    \o Opt(fl.WriteHumidifier, "humidifier")
    \o Opt(fl.WriteAuxHeat1, "auxHeat1")
    \o Opt(fl.WriteAuxHeat2, "auxHeat2")
    \o Opt(fl.WriteHeatPump1, "compHeat1")
    \o Opt(fl.WriteCool1, "compCool1")
    \o Opt(fl.WriteCool2, "compCool2")

\* the literal "2022-02-16" of the request
RequestDate == <<"2", "0", "2", "2", "-", "0", "2", "-", "1", "6">>

\* GetRuntimeReportRequest as GetRuntimeReport builds it; the call in
\* doUpdate passes start_str and end_str, the request holds fixed dates
RuntimeReportRequest(start, end, fl) ==
  [StartDate |-> RequestDate,
   EndDate   |-> RequestDate,
   Columns   |-> Join(ColumnsToInclude(fl), <<",">>)]

\* ------------------------------------------------------------ report times
\* An instant of a report is [d, s, n]: days since 0001-01-01, seconds of
\* the day and nanoseconds of the second.  A time.Duration has the same
\* shape; it is an int64 of nanoseconds and saturates.

NanosPerSecond == 1000000000

SecondsPerDay == 86400

\* carry nanoseconds into seconds and seconds into days
TNorm(d, s, n) ==
  LET s1 == s + (n \div NanosPerSecond)
  IN  [d |-> d + (s1 \div SecondsPerDay),
       s |-> s1 % SecondsPerDay,
       n |-> n % NanosPerSecond]

\* the largest time.Duration, 2^63 - 1 nanoseconds
MaxDuration == [d |-> 106751, s |-> 85636, n |-> 854775807]

\* the smallest time.Duration, -2^63 nanoseconds
MinDuration == [d |-> -106752, s |-> 763, n |-> 145224192]

\* a is shorter (earlier) than b
TLess(a, b) ==
  \/ a.d < b.d
  \/ a.d = b.d /\ a.s < b.s
  \/ a.d = b.d /\ a.s = b.s /\ a.n < b.n

\* t.Sub(u): the difference, or the extreme Duration when it does not fit
TimeSub(t, u) ==
  LET raw == TNorm(t.d - u.d, t.s - u.s, t.n - u.n)
  IN  IF TLess(MaxDuration, raw) THEN MaxDuration
      ELSE IF TLess(raw, MinDuration) THEN MinDuration
      ELSE raw

\* t.Add(d)
TimeAdd(t, dur) == TNorm(t.d + dur.d, t.s + dur.s, t.n + dur.n)

\* time.Duration(k) * time.Minute
Minutes(k) == TNorm(0, 60 * k, 0)

\* the zero time.Time
ZeroTime == [d |-> 0, s |-> 0, n |-> 0]

\* the number written by the digits of s
RECURSIVE Number(_)
Number(s) ==
  IF Len(s) = 0 THEN 0
  ELSE Number(SubSeq(s, 1, Len(s) - 1)) * 10 + DigitVal(s[Len(s)])

AllDigits(s) == \A i \in 1..Len(s) : IsDigit(s[i])

\* s without its leading spaces
RECURSIVE CutSpace(_)
CutSpace(s) == IF Len(s) > 0 /\ s[1] = " " THEN CutSpace(Tail(s)) ELSE s

\* the digits at the head of s
RECURSIVE LeadingDigits(_)
LeadingDigits(s) ==
  IF Len(s) > 0 /\ IsDigit(s[1]) THEN <<s[1]>> \o LeadingDigits(Tail(s))
  ELSE <<>>

\* s from position i on
From(s, i) == SubSeq(s, i, Len(s))

\* 10 to the power k
RECURSIVE Pow10(_)
Pow10(k) == IF k = 0 THEN 1 ELSE 10 * Pow10(k - 1)

\* parseNanoseconds: the fraction digits fr, at most nine of them used
FracNanos(fr) ==
  LET used == IF Len(fr) > 9 THEN SubSeq(fr, 1, 9) ELSE fr
  IN  Number(used) * Pow10(9 - Len(used))

BadTime == [ok |-> FALSE, t |-> ZeroTime]

\* the clock part of time.Parse("2006-01-02 15:04:05", ..): hour of one or
\* two digits, minute and second of two, an optional fraction of a second
ParseClock(days, c) ==
  LET hl == IF Len(c) >= 2 /\ IsDigit(c[1]) /\ IsDigit(c[2]) THEN 2
            ELSE IF Len(c) >= 1 /\ IsDigit(c[1]) THEN 1 ELSE 0
      r  == From(c, hl + 1)
  IN  IF /\ hl > 0
         /\ Len(r) >= 6
         /\ r[1] = ":" /\ IsDigit(r[2]) /\ IsDigit(r[3])
         /\ r[4] = ":" /\ IsDigit(r[5]) /\ IsDigit(r[6])
      THEN LET h    == Number(SubSeq(c, 1, hl))
               mi   == Number(SubSeq(r, 2, 3))
               se   == Number(SubSeq(r, 5, 6))
               rest == From(r, 7)
               frac == IF Len(rest) >= 2 /\ rest[1] = "." /\ IsDigit(rest[2])
                       THEN LeadingDigits(Tail(rest)) ELSE <<>>
               tail == IF frac = <<>> THEN rest ELSE From(rest, Len(frac) + 2)
           IN  IF h < 24 /\ mi < 60 /\ se < 60 /\ tail = <<>>
               THEN [ok |-> TRUE,
                     t  |-> [d |-> days, s |-> h * 3600 + mi * 60 + se,
                             n |-> FracNanos(frac)]]
               ELSE BadTime
      ELSE BadTime

\* time.Parse("2006-01-02 15:04:05", s); the zero time on an error
ParseDateTime(s) ==
  IF Len(s) >= 11 /\ s[11] = " " /\ Parse(SubSeq(s, 1, 10)).ok
  THEN ParseClock(Parse(SubSeq(s, 1, 10)).t \div 24, CutSpace(From(s, 11)))
  ELSE BadTime

\* strings.Split(s, ",")
RECURSIVE Split(_)
Split(s) ==
  IF \E i \in 1..Len(s) : s[i] = ","
  THEN LET k == CHOOSE i \in 1..Len(s) :
                  s[i] = "," /\ \A j \in 1..(i - 1) : s[j] # ","
       IN  << SubSeq(s, 1, k - 1) >> \o Split(From(s, k + 1))
  ELSE << s >>

\* fmt.Sprintf("%s %s", d, t)
DateTimeText(d, t) == d \o <<" ">> \o t

\* ------------------------------------------------------------ report
\* the fields of a row are too few for the two time fields and the columns:
\* fields[1] or fields[i+2] is out of range
RowPanics(row, cols) ==
  Len(Split(row)) < 2 \/ Len(Split(row)) < Len(cols) + 2

\* RowList[0] of an empty list, or a row that is too short
ReportPanics(rep, cols) ==
  \/ Len(rep.RowList) = 0
  \/ \E i \in 1..Len(rep.RowList) : RowPanics(rep.RowList[i], cols)

\* the local time of a row, the zero time when it does not parse
RowTime(row) ==
  LET f == Split(row) IN ParseDateTime(DateTimeText(f[1], f[2])).t

\* formatted_entry: the column at index i is the field at index i + 2, a
\* column named twice keeps the later field
RowFields(row, cols) ==
  LET f == Split(row)
  IN  [c \in {cols[i] : i \in 1..Len(cols)} |->
         f[(CHOOSE i \in 1..Len(cols) :
              cols[i] = c /\ \A j \in 1..Len(cols) : cols[j] = c => j <= i) + 2]]

\* utc_start_time of a response with a valid StartDate
UtcStart(r) ==
  TimeAdd([d |-> Parse(r.StartDate).t \div 24, s |-> 0, n |-> 0],
          Minutes(r.StartInterval * 5))

\* the entries of one thermostat's report: one offset from the first row,
\* added to the local time of every row
ReportEntries(rep, cols, utc) ==
  LET time_offset == TimeSub(utc, RowTime(rep.RowList[1]))
  IN  [i \in 1..Len(rep.RowList) |->
         [ReportTime |-> TimeAdd(RowTime(rep.RowList[i]), time_offset),
          DataFields |-> RowFields(rep.RowList[i], cols)]]

\* a vendor call that did not return a response
NoResponse == [fails |-> TRUE]

\* what GetRuntimeReport returns for the vendor's answer r: an error for a
\* failed call or an unparsable StartDate, a panic for an index out of
\* range, else the entries of each thermostat (a thermostat reported twice
\* keeps its later report)
ParseReport(r) ==
  IF r.fails THEN [kind |-> "error", data |-> << >>]
  ELSE IF ~Parse(r.StartDate).ok THEN [kind |-> "error", data |-> << >>]
  ELSE LET cols == Split(r.Columns)
           n    == Len(r.ReportList)
           ids  == {r.ReportList[i].ThermostatIdentifier : i \in 1..n}
           last(id) == CHOOSE i \in 1..n :
                         /\ r.ReportList[i].ThermostatIdentifier = id
                         /\ \A j \in 1..n :
                              r.ReportList[j].ThermostatIdentifier = id => j <= i
       IN  IF \E i \in 1..n : ReportPanics(r.ReportList[i], cols)
           THEN [kind |-> "panic", data |-> << >>]
           ELSE [kind |-> "ok",
                 data |-> [id \in ids |->
                             ReportEntries(r.ReportList[last(id)], cols,
                                           UtcStart(r))]]

\* ------------------------------------------------------------ field mapper
\* The raw values of the model are texts over digits, "+", "-", ".", " "
\* and "x", shorter than 300 tokens: no exponent, no hexadecimal or special
\* float and no float out of range can be written with them.

\* s without its leading zeros
RECURSIVE StripZeros(_)
StripZeros(s) == IF Len(s) > 0 /\ s[1] = "0" THEN StripZeros(Tail(s)) ELSE s

\* s without its trailing zeros
RECURSIVE StripTrailingZeros(_)
StripTrailingZeros(s) ==
  IF Len(s) > 0 /\ s[Len(s)] = "0"
  THEN StripTrailingZeros(SubSeq(s, 1, Len(s) - 1)) ELSE s

\* a number text without its sign
Unsigned(s) == IF Len(s) > 0 /\ s[1] \in {"+", "-"} THEN Tail(s) ELSE s

\* of two digit texts of one length, a is the smaller number
DigitsLess(a, b) ==
  \E i \in 1..Len(a) :
    /\ DigitVal(a[i]) < DigitVal(b[i])
    /\ \A j \in 1..(i - 1) : a[j] = b[j]

\* the digits of 2^63 - 1, the largest int
MaxIntDigits == <<"9", "2", "2", "3", "3", "7", "2", "0", "3", "6", "8", "5", "4", "7", "7", "5", "8", "0", "7">>

\* the digits of 2^63, the magnitude of the smallest int
MinIntDigits == <<"9", "2", "2", "3", "3", "7", "2", "0", "3", "6", "8", "5", "4", "7", "7", "5", "8", "0", "8">>

\* an int: its sign and the digits of its magnitude
IntValue(neg, mag) == [type |-> "int", neg |-> neg, mag |-> mag]

\* the digits of 2^64 - 1, the largest uint64
MaxUintDigits == <<"1", "8", "4", "4", "6", "7", "4", "4", "0", "7", "3", "7", "0", "9", "5", "5", "1", "6", "1", "5">>

\* the number written by the digits d does not fit a uint64
Overflows(d) ==
  LET mag == StripZeros(d)
  IN  Len(mag) > 20 \/ (Len(mag) = 20 /\ DigitsLess(MaxUintDigits, mag))

\* strconv.Atoi(s): the text is read from the left, so digits that overflow
\* a uint64 give the nearest int with a range error whatever follows them;
\* else a character that is no digit gives 0 with a syntax error; else the
\* number, or the nearest int with a range error
Atoi(s) ==
  LET body  == Unsigned(s)
      run   == LeadingDigits(body)
      mag   == IF StripZeros(body) = <<>> THEN <<"0">> ELSE StripZeros(body)
      neg   == Len(s) > 0 /\ s[1] = "-"
      limit == IF neg THEN MinIntDigits ELSE MaxIntDigits
  IN  IF Len(body) = 0
      THEN [err |-> "syntax", v |-> IntValue(FALSE, <<"0">>)]
      ELSE IF Overflows(run)
      THEN [err |-> "range", v |-> IntValue(neg, limit)]
      ELSE IF ~AllDigits(body)
      THEN [err |-> "syntax", v |-> IntValue(FALSE, <<"0">>)]
      ELSE IF Len(mag) > 19 \/ (Len(mag) = 19 /\ DigitsLess(limit, mag))
      THEN [err |-> "range", v |-> IntValue(neg, limit)]
      ELSE [err |-> "nil", v |-> IntValue(neg /\ mag # <<"0">>, mag)]

\* the float64 nearest to the decimal number ip.fp, with its sign
FloatValue(neg, ip, fp) == [type |-> "float", neg |-> neg, ip |-> ip, fp |-> fp]

\* strconv.ParseFloat(s, 64) on the texts of the model: an optional sign,
\* digits with at most one point and at least one digit; 0 with an error
ParseFloat(s) ==
  LET body == Unsigned(s)
      dots == {i \in 1..Len(body) : body[i] = "."}
      k    == IF dots = {} THEN Len(body) + 1 ELSE CHOOSE i \in dots : TRUE
      ip   == SubSeq(body, 1, k - 1)
      fp   == From(body, k + 1)
  IN  IF /\ Cardinality(dots) <= 1
         /\ AllDigits(ip) /\ AllDigits(fp)
         /\ Len(ip) + Len(fp) > 0
      THEN [err |-> "nil",
            v |-> FloatValue(Len(s) > 0 /\ s[1] = "-", StripZeros(ip),
                             StripTrailingZeros(fp))]
      ELSE [err |-> "syntax", v |-> FloatValue(FALSE, <<>>, <<>>)]

\* the chain of comparisons of doUpdate: vendor column, sink field, type
Translation ==
  { << <<"auxHeat1">>, "aux_heat_1_run_time_s", "int" >>,
    << <<"auxHeat2">>, "aux_heat_2_run_time_s", "int" >>,
    << <<"compCool1">>, "cool_1_run_time_s", "int" >>,
    << <<"compCool2">>, "cool_2_run_time_s", "int" >>,
    << <<"compHeat1">>, "heat_pump_1_run_time_s", "int" >>,
    << <<"compHeat2">>, "heat_pump_2_run_time_s", "int" >>,
    << <<"humidifier">>, "humidifier_run_time_s", "int" >>,
    << <<"zoneCoolTemp">>, "setpoint_cool_°F", "float" >>,
    << <<"zoneHeatTemp">>, "setpoint_heat_°F", "float" >>,
    << <<"zoneAveTemp">>, "temperature_°F", "float" >>,
    << <<"zoneHumidity">>, "humidity_%", "float" >>,
    << <<"outdoorTemp">>, "outdoor_temperature_°F", "float" >>,
    << <<"outdoorHumidity">>, "outdoor_humidity_%", "float" >>,
    << <<"hvacMode">>, "HVAC_mode", "string" >>,
    << <<"fan">>, "fan_run_time_s", "int" >> }

\* the value a field of type ty gets from the raw text val; the error of
\* the conversion is dropped
FieldValue(ty, val) ==
  IF ty = "int" THEN Atoi(val).v
  ELSE IF ty = "float" THEN ParseFloat(val).v
  ELSE [type |-> "string", text |-> val]

MapFieldsKeepsUnknown(df) ==
  LET hits  == {tr \in Translation : tr[1] \in DOMAIN df}
      other == IF \E c \in DOMAIN df : \A tr \in Translation : tr[1] # c
               THEN {"other"} ELSE {}
  IN  [f \in {tr[2] : tr \in hits} \cup other |->
         IF f = "other" THEN [type |-> "string", text |-> <<>>]
         ELSE LET tr == CHOOSE x \in hits : x[2] = f
              IN  FieldValue(tr[3], df[tr[1]])]

\* fields: one sink field for every column of the entry that the chain
\* of comparisons knows
MapFields(df) ==
  LET hits == {tr \in Translation : tr[1] \in DOMAIN df}
  IN  [f \in {tr[2] : tr \in hits} |->
         LET tr == CHOOSE x \in hits : x[2] = f
         IN  FieldValue(tr[3], df[tr[1]])]

\* meta: the tags of the points of thermostat id, with the metadata that
\* GetThermostats returned for it, if any
Tags(id, metadata) ==
  LET base == [k \in {"device_id", "receiver"} |->
                 IF k = "device_id" THEN <<"ecobee-", id>>
                 ELSE <<"ecobee-influx-connector">>]
  IN  IF id \in DOMAIN metadata THEN base @@ metadata[id] ELSE base

\* the nil point that NewPoint returns with its error
NoPoint == [nil |-> TRUE]

\* 1970-01-01 in days from the zero time
EpochDay == 719162

\* models.MinNanoTime and models.MaxNanoTime as instants
MinNanoTime ==
  TimeAdd(TimeAdd([d |-> EpochDay, s |-> 0, n |-> 0], MinDuration),
          [d |-> 0, s |-> 0, n |-> 2])

MaxNanoTime ==
  TimeAdd(TimeAdd([d |-> EpochDay, s |-> 0, n |-> 0], MaxDuration),
          [d |-> 0, s |-> 0, n |-> -1])

\* models.CheckTime: the zero time is not checked
TimeInRange(t) ==
  t = ZeroTime \/ (~TLess(t, MinNanoTime) /\ ~TLess(MaxNanoTime, t))

\* influxclient.NewPoint: a point needs at least one field and a time the
\* line protocol can hold
NewPoint(name, tags, fields, time) ==
  IF DOMAIN fields = {} \/ ~TimeInRange(time) THEN NoPoint
  ELSE [name |-> name, tags |-> tags, fields |-> fields, time |-> time]

\* no request has been sent in the running attempt
NoRequest == [StartDate |-> <<>>, EndDate |-> <<>>, Columns |-> <<>>]

\* the column flags of the configuration file
ConfigFlags == [f \in FlagNames |-> TRUE]

\* what a pass with nothing to do continues with: os.Exit(0)
NoWorkPc == "exit0"

\* ------------------------------------------------------------ state
VARIABLES
  file,                 \* content of ./last_data.txt, or Missing
  now,                  \* the wall clock
  ticks,                \* clock ticks taken so far
  passes,               \* planning passes taken so far
  pc,                   \* position of the process
  exitCode,             \* exit status of the process, NoExit while it runs
  lastData,             \* main: trimmed text read from the watermark file
  left_off,             \* main: parsed watermark
  yesterday,            \* main: midnight of yesterday
  start_str,            \* main: start of the window, formatted
  end_str,              \* main: end of the window, formatted
  attempt,              \* retry.Do: number of the running attempt, from 1;
                        \* 0 when retry.Do is not running
  thermostat_metadata,  \* doUpdate: identifiers with metadata, or NotFetched
  report_data,          \* doUpdate: thermostats of the report, or NotFetched
  rr_err,               \* doUpdate: "nil" or "error" as GetRuntimeReport returned, or Unset
  written,              \* doUpdate: thermostats written in this attempt
  request,              \* the runtime-report request sent in this attempt
  sink,                 \* batches the sink has accepted
  op,                   \* the last operation the process performed
  high,                 \* the last valid watermark the file has held, or -1
  crashWin,             \* the window of a run that crashed with its sink
                        \* writes made and its watermark not persisted
  flags,                \* report: the seven column flags of the configuration
  resp,                 \* report: the vendor's answer to the report request
  metadata,             \* report: thermostat_metadata of the run
  col_to_include,       \* report: the columns of the request
  parsed,               \* report: what GetRuntimeReport returned
  pending,              \* report: thermostats of report_data not yet written
  store,                \* report: the content of the sink
  issued,               \* report: the batches written, run by run
  snap,                 \* report: the content of the sink after each run
  runs,                 \* report: runs of doUpdate completed
  rpc,                  \* report: position of the run
  tempF,                \* humidity: the outdoor temperature, in tenths
  recommendation,       \* humidity: the percentage returned, 0 before the call
  hpc,                  \* humidity: position of the call
  budget                \* planning passes the exploration follows

loopVars == << file, now, ticks, passes, pc, exitCode, lastData, left_off,
               yesterday, start_str, end_str, attempt, thermostat_metadata,
               report_data, rr_err, written, request, sink, op, high,
               crashWin >>

reportVars == << flags, resp, metadata, col_to_include, parsed, pending,
                 store, issued, snap, runs, rpc >>

humidityVars == << tempF, recommendation, hpc >>

vars == << loopVars, reportVars, humidityVars, budget >>

mainLocals == << lastData, left_off, yesterday, start_str, end_str >>

attemptLocals == << thermostat_metadata, report_data, rr_err, written,
                   request >>

\* ------------------------------------------------------------ points
\* the timestamp of the point of an entry
PointTime(entry) == entry.ReportTime

\* bp: the points of one thermostat's entries, in their order
BatchPoints(id, entries, md) ==
  [i \in 1..Len(entries) |->
     NewPoint("ecobee_runtime_report", Tags(id, md),
              MapFields(entries[i].DataFields), PointTime(entries[i]))]

\* ------------------------------------------------------------ sink
\* The sink keeps one field set for every measurement, tag set and
\* timestamp; a point written to an existing key replaces the fields it
\* names and keeps the others.

UpsertPoint(st, p) ==
  IF p = NoPoint THEN st
  ELSE LET k == << p.name, p.tags, p.time >>
       IN  IF k \in DOMAIN st
           THEN [st EXCEPT ![k] = p.fields @@ st[k]]
           ELSE (k :> p.fields) @@ st

\* Write(bp): the points of a batch in their order
RECURSIVE UpsertBatch(_, _)
UpsertBatch(st, bp) ==
  IF Len(bp) = 0 THEN st
  ELSE UpsertBatch(UpsertPoint(st, bp[1]), Tail(bp))

\* the empty sink
EmptyStore == [k \in {} |-> 0]

\* ------------------------------------------------------------ report runs
\* runs of doUpdate over one window and one vendor answer
MaxRuns == 2

Answer(cols, reports) ==
  [fails |-> FALSE, StartDate |-> RequestDate, StartInterval |-> 1,
   Columns |-> cols, ReportList |-> reports]

Report(id, rows) == [ThermostatIdentifier |-> id, RowList |-> rows]

TwoColumns == <<"zoneAveTemp", ",", "fan">>

\* two thermostats, rows five minutes apart
RespGood ==
  Answer(TwoColumns,
    << Report("t1", << <<"2", "0", "2", "2", "-", "0", "2", "-", "1", "5", ",", "1", "9", ":", "0", "5", ":", "0", "0", ",", "7", "0", ".", "5", ",", "3", "0", "0">>,
       <<"2", "0", "2", "2", "-", "0", "2", "-", "1", "5", ",", "1", "9", ":", "1", "0", ":", "0", "0", ",", "7", "0", ".", "7", ",", "0">> >>),
       Report("t2", << <<"2", "0", "2", "2", "-", "0", "2", "-", "1", "5", ",", "1", "9", ":", "0", "5", ":", "0", "0", ",", "6", "8", ",", "1", "2", "0">> >>) >>)

\* a thermostat reported twice, and two rows of one time
RespRepeat ==
  Answer(TwoColumns,
    << Report("t1", << <<"2", "0", "2", "2", "-", "0", "2", "-", "1", "5", ",", "1", "9", ":", "0", "5", ":", "0", "0", ",", "6", "0", ",", "1">> >>),
       Report("t1", << <<"2", "0", "2", "2", "-", "0", "2", "-", "1", "5", ",", "1", "9", ":", "0", "5", ":", "0", "0", ",", "7", "0", ".", "5", ",", "3", "0", "0">>,
       <<"2", "0", "2", "2", "-", "0", "2", "-", "1", "5", ",", "1", "9", ":", "0", "5", ":", "0", "0", ",", "7", "1", ",", "1", "0">> >>) >>)

\* every column of the chain of comparisons, and one it does not know
RespAll ==
  Answer(<<"auxHeat1", ",", "auxHeat2", ",", "compCool1", ",", "compCool2", ",", "compHeat1", ",", "compHeat2", ",", "humidifier", ",", "zoneCoolTemp", ",", "zoneHeatTemp", ",", "zoneAveTemp", ",", "zoneHumidity", ",", "outdoorTemp", ",", "outdoorHumidity", ",", "hvacMode", ",", "fan", ",", "dmOffset">>,
    << Report("t1", << <<"2", "0", "2", "2", "-", "0", "2", "-", "1", "5", ",", "1", "9", ":", "0", "5", ":", "0", "0", ",", "1", ",", "2", ",", "3", ",", "4", ",", "5", ",", "6", ",", "7", ",", "7", "5", ",", "6", "8", ".", "5", ",", "7", "0", ".", "2", "5", ",", "4", "1", ",", "-", "3", ".", "5", ",", "8", "0", ",", "heat", ",", "3", "0", "0", ",", "9">> >>) >>)

RespEmptyRows == Answer(TwoColumns, << Report("t1", << >>) >>)

RespShortRow ==
  Answer(TwoColumns, << Report("t1", << <<"2", "0", "2", "2", "-", "0", "2", "-", "1", "5">> >>) >>)

RespFewValues ==
  Answer(TwoColumns,
    << Report("t1", << <<"2", "0", "2", "2", "-", "0", "2", "-", "1", "5", ",", "1", "9", ":", "0", "5", ":", "0", "0", ",", "7", "0", ".", "5">> >>) >>)

\* a time of day without seconds
RespBadTime ==
  Answer(TwoColumns,
    << Report("t1", << <<"2", "0", "2", "2", "-", "0", "2", "-", "1", "6", ",", "0", "0", ":", "0", "5", ",", "7", "0", ".", "5", ",", "1">> >>) >>)

\* a row after the first whose time is no time
RespBadLater ==
  Answer(TwoColumns,
    << Report("t1", << <<"2", "0", "2", "2", "-", "0", "2", "-", "1", "5", ",", "1", "9", ":", "0", "5", ":", "0", "0", ",", "7", "0", ".", "5", ",", "1">>,
       <<"2", "0", "2", "2", "-", "0", "2", "-", "1", "5", ",", "x", ",", "7", "0", ".", "7", ",", "2">> >>) >>)

\* a valid date more than 292 years before the start
RespOldDate ==
  Answer(TwoColumns,
    << Report("t1", << <<"1", "6", "0", "0", "-", "0", "1", "-", "0", "1", ",", "0", "0", ":", "0", "0", ":", "0", "0", ",", "7", "0", ".", "5", ",", "1">>,
       <<"1", "6", "0", "0", "-", "0", "1", "-", "0", "1", ",", "0", "0", ":", "0", "5", ":", "0", "0", ",", "7", "0", ".", "7", ",", "2">> >>) >>)

RespBadStart == [RespGood EXCEPT !.StartDate = <<"x">>]

RespUnknown ==
  Answer(<<"zoneAveTemp", ",", "dmOffset">>,
    << Report("t1", << <<"2", "0", "2", "2", "-", "0", "2", "-", "1", "5", ",", "1", "9", ":", "0", "5", ":", "0", "0", ",", "7", "0", ".", "5", ",", "4">> >>) >>)

RespOnlyUnknown ==
  Answer(<<"dmOffset">>,
    << Report("t1", << <<"2", "0", "2", "2", "-", "0", "2", "-", "1", "5", ",", "1", "9", ":", "0", "5", ":", "0", "0", ",", "4">> >>) >>)

\* values that are no numbers
RespBadNumbers ==
  Answer(TwoColumns,
    << Report("t1", << <<"2", "0", "2", "2", "-", "0", "2", "-", "1", "5", ",", "1", "9", ":", "0", "5", ":", "0", "0", ",", "7", "x", ",">>,
       <<"2", "0", "2", "2", "-", "0", "2", "-", "1", "5", ",", "1", "9", ":", "1", "0", ":", "0", "0", ",", "1", ".", "2", ".", "3", ",", "+">> >>) >>)

\* integers beyond 64 bits, the last one followed by a letter
RespHugeInt ==
  Answer(TwoColumns,
    << Report("t1", << <<"2", "0", "2", "2", "-", "0", "2", "-", "1", "5", ",", "1", "9", ":", "0", "5", ":", "0", "0", ",", "7", "0", ".", "5", ",", "9", "9", "9", "9", "9", "9", "9", "9", "9", "9", "9", "9", "9", "9", "9", "9", "9", "9", "9", "9">>,
       <<"2", "0", "2", "2", "-", "0", "2", "-", "1", "5", ",", "1", "9", ":", "1", "0", ":", "0", "0", ",", "7", "0", ".", "5", ",", "-", "9", "2", "2", "3", "3", "7", "2", "0", "3", "6", "8", "5", "4", "7", "7", "5", "8", "0", "9">>,
       <<"2", "0", "2", "2", "-", "0", "2", "-", "1", "5", ",", "1", "9", ":", "1", "5", ":", "0", "0", ",", "7", "0", ".", "5", ",", "9", "9", "9", "9", "9", "9", "9", "9", "9", "9", "9", "9", "9", "9", "9", "9", "9", "9", "9", "9", "x">> >>) >>)

RespNoThermostat == Answer(TwoColumns, << >>)

\* the answer that names the requested columns, every value 1
EchoResponse(fl) ==
  LET cols == ColumnsToInclude(fl)
  IN  Answer(Join(cols, <<",">>),
        << Report("t1",
             << Join(<< <<"2", "0", "2", "2", "-", "0", "2", "-", "1", "5">>,
                        <<"1", "9", ":", "0", "5", ":", "0", "0">> >>
                     \o [i \in 1..Len(cols) |-> <<"1">>], <<",">>) >>) >>)

Responses ==
  { RespGood, RespRepeat, RespAll, RespEmptyRows, RespShortRow,
    RespFewValues, RespBadTime, RespBadLater, RespOldDate, RespBadStart,
    RespUnknown, RespOnlyUnknown, RespBadNumbers, RespHugeInt,
    RespNoThermostat, NoResponse }

\* thermostat_metadata as GetThermostats returned it
MetadataOf(ids) ==
  [id \in ids |->
     [k \in {"thermostat_name", "thermostat_model", "thermostat_brand"} |->
        IF k = "thermostat_name" THEN <<"name-", id>>
        ELSE IF k = "thermostat_model" THEN <<"model">> ELSE <<"brand">>]]

NotParsed == [kind |-> "none", data |-> << >>]

\* the report variables while the main loop is modelled
ReportIdle ==
  /\ flags = ConfigFlags
  /\ resp = NoResponse
  /\ metadata = MetadataOf({})
  /\ col_to_include = << >>
  /\ parsed = NotParsed
  /\ pending = {}
  /\ store = EmptyStore
  /\ issued = << >>
  /\ snap = << >>
  /\ runs = 0
  /\ rpc = "idle"

None == [phase |-> "none"]

\* the watermark a planning step would read from file content f
Stored(f) == Parse(TrimSpace(ReadFile(f)))

\* the last valid watermark, after the file content has become f
HighAfter(f) == IF Stored(f).ok THEN Stored(f).t ELSE high

\* the clock at the first start of the process
StartClock == Instant(2022, 3, 1, 10)

DateLine(y, m, d) == WatermarkBytes(Format(Instant(y, m, d, 0)))

\* watermark files the process may find at its first start
InitFiles ==
  { Missing, <<"x", "\n">>,
    DateLine(2022, 1, 20), DateLine(2022, 2, 27), DateLine(2022, 2, 28),
    DateLine(2022, 3, 4) }

Running == {"plan", "meta", "report", "write", "persist", "writing", "sleep"}

Stopped == {"exit0", "fatal", "crashed"}

\* the main loop at its first start, the watermark file one of files
InitLoopFrom(files) ==
  /\ file \in files
  /\ now = StartClock
  /\ ticks = 0
  /\ passes = 0
  /\ pc = "plan"
  /\ exitCode = NoExit
  /\ lastData = <<>>
  /\ left_off = 0
  /\ yesterday = 0
  /\ start_str = <<>>
  /\ end_str = <<>>
  /\ attempt = 0
  /\ thermostat_metadata = NotFetched
  /\ report_data = NotFetched
  /\ rr_err = Unset
  /\ written = {}
  /\ request = NoRequest
  /\ sink = {}
  /\ op = "init"
  /\ high = IF Stored(file).ok THEN Stored(file).t ELSE -1
  /\ crashWin = None

InitLoop == InitLoopFrom(InitFiles)

\* the humidity variables while no recommendation is asked for
HumidityIdle ==
  /\ tempF = 0
  /\ recommendation = 0
  /\ hpc = "idle"

Init == InitLoop /\ ReportIdle /\ HumidityIdle /\ budget = MaxPasses

\* ------------------------------------------------------------ main loop
\* one pass of `for true`: read the watermark, plan, exit or start doUpdate
Plan ==
  /\ pc = "plan"
  /\ passes < budget
  /\ passes' = passes + 1
  /\ op' = "plan"
  /\ LET ld == TrimSpace(ReadFile(file))
         y  == Yesterday(now)
         lo == LeftOff(ld)
         w  == PlanWindow(lo, y)
     IN  /\ lastData' = ld
         /\ left_off' = lo
         /\ yesterday' = y
         /\ IF NothingToDo(lo, y)
            THEN /\ pc' = NoWorkPc
                 /\ exitCode' = 0
                 /\ UNCHANGED << start_str, end_str, attempt >>
            ELSE /\ pc' = "meta"
                 /\ start_str' = Format(w.start)
                 /\ end_str' = Format(w.end)
                 /\ attempt' = 1
                 /\ UNCHANGED exitCode
  /\ thermostat_metadata' = NotFetched
  /\ report_data' = NotFetched
  /\ rr_err' = Unset
  /\ written' = {}
  /\ request' = NoRequest
  /\ crashWin' = IF crashWin.phase = "crashed"
                 THEN [crashWin EXCEPT !.phase = "resumed"]
                 ELSE None
  /\ UNCHANGED << file, now, ticks, sink, high >>
  /\ UNCHANGED << reportVars, humidityVars, budget >>

\* mutant: the retry repeats the failed step with what was fetched before
AttemptFailedResumes ==
  IF LastAttempt(attempt)
  THEN /\ pc' = "fatal"
       /\ exitCode' = 1
       /\ UNCHANGED << attempt, attemptLocals >>
  ELSE /\ pc' = pc
       /\ attempt' = attempt + 1
       /\ UNCHANGED << exitCode, attemptLocals >>

\* the attempt returned an error: retry.Do runs it again, or gives up and
\* log.Fatal ends the process
AttemptFailed ==
  IF LastAttempt(attempt)
  THEN /\ pc' = "fatal"
       /\ exitCode' = 1
       /\ UNCHANGED << attempt, attemptLocals >>
  ELSE /\ pc' = "meta"
       /\ attempt' = attempt + 1
       /\ thermostat_metadata' = NotFetched
       /\ report_data' = NotFetched
       /\ rr_err' = Unset
       /\ written' = {}
       /\ request' = NoRequest
       /\ UNCHANGED exitCode

\* client.GetThermostats succeeds: the map has an entry for each thermostat
\* of the answer's list, which may hold every thermostat, some or none
GetThermostatsOk ==
  /\ pc = "meta"
  /\ op' = "meta_ok"
  /\ thermostat_metadata' \in SUBSET Thermostats
  /\ pc' = "report"
  /\ UNCHANGED << file, now, ticks, passes, exitCode, mainLocals, attempt,
                  report_data, rr_err, written, request, sink, high,
                  crashWin >>
  /\ UNCHANGED << reportVars, humidityVars, budget >>

\* client.GetThermostats returns an error: return err
GetThermostatsErr ==
  /\ pc = "meta"
  /\ op' = "meta_err"
  /\ AttemptFailed
  /\ UNCHANGED << file, now, ticks, passes, mainLocals, sink, high, crashWin >>
  /\ UNCHANGED << reportVars, humidityVars, budget >>

\* the attempt's loop over report_data r: nothing to write returns nil
AfterReport(r) == IF r = {} THEN "persist" ELSE "write"

\* retry.Do's count of attempts when doUpdate is at p: the attempt that
\* returned nil was the last one and retry.Do has returned
AttemptAt(p) == IF p = "persist" THEN 0 ELSE attempt

\* client.GetRuntimeReport succeeds: the map has an entry for each report
\* of the answer's ReportList, which may hold every thermostat, some or none
GetRuntimeReportOk ==
  /\ pc = "report"
  /\ op' = "report_ok"
  /\ \E r \in SUBSET Thermostats :
       /\ report_data' = r
       /\ pc' = AfterReport(r)
       /\ attempt' = AttemptAt(AfterReport(r))
  /\ rr_err' = "nil"
  /\ request' = RuntimeReportRequest(start_str, end_str, ConfigFlags)
  /\ UNCHANGED << file, now, ticks, passes, exitCode, mainLocals,
                  thermostat_metadata, written, sink, high, crashWin >>
  /\ UNCHANGED << reportVars, humidityVars, budget >>

\* client.GetRuntimeReport returns (nil, err); `_ = rr_err` drops the error
\* and the loop over the nil map has no iteration
GetRuntimeReportErr ==
  /\ pc = "report"
  /\ op' = "report_err"
  /\ report_data' = {}
  /\ rr_err' = "error"
  /\ request' = RuntimeReportRequest(start_str, end_str, ConfigFlags)
  /\ pc' = AfterReport({})
  /\ attempt' = AttemptAt(AfterReport({}))
  /\ UNCHANGED << file, now, ticks, passes, exitCode, mainLocals,
                  thermostat_metadata, written, sink, high, crashWin >>
  /\ UNCHANGED << reportVars, humidityVars, budget >>

\* client.GetRuntimeReport indexes a row list or a row out of range: the
\* panic ends the process with status 2
GetRuntimeReportPanic ==
  /\ pc = "report"
  /\ op' = "report_panic"
  /\ request' = RuntimeReportRequest(start_str, end_str, ConfigFlags)
  /\ pc' = "crashed"
  /\ exitCode' = 2
  /\ UNCHANGED << file, now, ticks, passes, mainLocals, attempt,
                  thermostat_metadata, report_data, rr_err, written, sink,
                  high, crashWin >>
  /\ UNCHANGED << reportVars, humidityVars, budget >>

\* influxClient.Write(bp) succeeds for one thermostat of the report (the
\* order of a map iteration is not defined): the sink takes the batch of
\* the thermostat, the rows the vendor sent for the dates of the request
WriteOk ==
  /\ pc = "write"
  /\ \E t \in report_data \ written :
       /\ sink' = sink \cup {<< t, request.StartDate, request.EndDate >>}
       /\ written' = written \cup {t}
       /\ pc' = IF report_data \ written = {t} THEN "persist" ELSE "write"
  /\ attempt' = AttemptAt(pc')
  /\ op' = "sink_ok"
  /\ UNCHANGED << file, now, ticks, passes, exitCode, mainLocals,
                  thermostat_metadata, report_data, rr_err, request, high,
                  crashWin >>
  /\ UNCHANGED << reportVars, humidityVars, budget >>

\* influxClient.Write(bp) returns an error: return err
WriteErr ==
  /\ pc = "write"
  /\ report_data \ written # {}
  /\ op' = "sink_err"
  /\ AttemptFailed
  /\ UNCHANGED << file, now, ticks, passes, mainLocals, sink, high, crashWin >>
  /\ UNCHANGED << reportVars, humidityVars, budget >>

\* ioutil.WriteFile opens ./last_data.txt with O_TRUNC
WriteFileOpen ==
  /\ pc = "persist"
  /\ op' = "wm_open"
  /\ file' = <<>>
  /\ high' = HighAfter(<<>>)
  /\ pc' = "writing"
  /\ UNCHANGED << now, ticks, passes, exitCode, mainLocals, attempt,
                  attemptLocals, sink, crashWin >>
  /\ UNCHANGED << reportVars, humidityVars, budget >>

\* ioutil.WriteFile writes end_str + "\n" and closes the file
WriteFileWrite ==
  /\ pc = "writing"
  /\ op' = "wm_write"
  /\ file' = WatermarkBytes(end_str)
  /\ high' = HighAfter(WatermarkBytes(end_str))
  /\ pc' = "sleep"
  /\ UNCHANGED << now, ticks, passes, exitCode, mainLocals, attempt,
                  attemptLocals, sink, crashWin >>
  /\ UNCHANGED << reportVars, humidityVars, budget >>

\* ioutil.WriteFile cannot open the file; `_ =` drops the error
WriteFileErr ==
  /\ pc = "persist"
  /\ op' = "wm_err"
  /\ pc' = "sleep"
  /\ UNCHANGED << file, now, ticks, passes, exitCode, mainLocals, attempt,
                  attemptLocals, sink, high, crashWin >>
  /\ UNCHANGED << reportVars, humidityVars, budget >>

\* ioutil.WriteFile has truncated the file and its write fails (a full
\* disk, say) after any proper prefix of the bytes; `_ =` drops the error
WriteFileWriteErr ==
  /\ pc = "writing"
  /\ op' = "wm_err"
  /\ \E k \in 0..Len(end_str) :
       /\ file' = SubSeq(WatermarkBytes(end_str), 1, k)
       /\ high' = HighAfter(SubSeq(WatermarkBytes(end_str), 1, k))
  /\ pc' = "sleep"
  /\ UNCHANGED << now, ticks, passes, exitCode, mainLocals, attempt,
                  attemptLocals, sink, crashWin >>
  /\ UNCHANGED << reportVars, humidityVars, budget >>

\* time.Sleep(3 * time.Second), then the next pass
Sleep ==
  /\ pc = "sleep"
  /\ op' = "sleep"
  /\ pc' = "plan"
  /\ UNCHANGED << file, now, ticks, passes, exitCode, mainLocals, attempt,
                  attemptLocals, sink, high, crashWin >>
  /\ UNCHANGED << reportVars, humidityVars, budget >>

\* ------------------------------------------------------------ environment
\* the wall clock advances
Tick ==
  /\ ticks < MaxTicks
  /\ ticks' = ticks + 1
  /\ now' = now + TickHours
  /\ UNCHANGED << file, passes, pc, exitCode, mainLocals, attempt,
                  attemptLocals, sink, op, high, crashWin >>
  /\ UNCHANGED << reportVars, humidityVars, budget >>

\* the process is killed; a kill while WriteFile has the file open may
\* leave any proper prefix of the bytes behind
Crash ==
  /\ pc \in Running
  /\ pc' = "crashed"
  /\ exitCode' = 137
  /\ op' = "crash"
  /\ IF pc = "writing"
     THEN \E k \in 0..Len(end_str) :
            /\ file' = SubSeq(WatermarkBytes(end_str), 1, k)
            /\ high' = HighAfter(SubSeq(WatermarkBytes(end_str), 1, k))
     ELSE UNCHANGED << file, high >>
  /\ crashWin' = IF /\ pc \in {"persist", "writing"}
                    /\ rr_err = "nil"
                    /\ written # {}
                    /\ TrimSpace(ReadFile(file')) # end_str
                 THEN [phase |-> "crashed", start |-> start_str,
                       end |-> end_str, yesterday |-> yesterday]
                 ELSE crashWin
  /\ UNCHANGED << now, ticks, passes, mainLocals, attempt, attemptLocals,
                  sink >>
  /\ UNCHANGED << reportVars, humidityVars, budget >>

\* the supervisor starts the process again
Restart ==
  /\ pc \in Stopped
  /\ pc' = "plan"
  /\ exitCode' = NoExit
  /\ op' = "restart"
  /\ lastData' = <<>>
  /\ left_off' = 0
  /\ yesterday' = 0
  /\ start_str' = <<>>
  /\ end_str' = <<>>
  /\ attempt' = 0
  /\ thermostat_metadata' = NotFetched
  /\ report_data' = NotFetched
  /\ rr_err' = Unset
  /\ written' = {}
  /\ request' = NoRequest
  /\ crashWin' = IF crashWin.phase = "resumed" THEN None ELSE crashWin
  /\ UNCHANGED << file, now, ticks, passes, sink, high >>
  /\ UNCHANGED << reportVars, humidityVars, budget >>

Next ==
  \/ Plan
  \/ GetThermostatsOk
  \/ GetThermostatsErr
  \/ GetRuntimeReportOk
  \/ GetRuntimeReportErr
  \/ GetRuntimeReportPanic
  \/ WriteOk
  \/ WriteErr
  \/ WriteFileOpen
  \/ WriteFileWrite
  \/ WriteFileErr
  \/ WriteFileWriteErr
  \/ Sleep
  \/ Tick
  \/ Crash
  \/ Restart

Spec == Init /\ [][Next]_vars

\* ------------------------------------------------------------ report runs
\* doUpdate from the report request to the last write, run MaxRuns times
\* over one configuration and one vendor answer, the main loop at rest
InitReport ==
  /\ file = Missing
  /\ InitLoop
  /\ flags \in [FlagNames -> BOOLEAN]
  /\ resp \in Responses \cup {EchoResponse(flags)}
  /\ metadata \in {MetadataOf(ids) : ids \in SUBSET Thermostats}
  /\ col_to_include = << >>
  /\ parsed = NotParsed
  /\ pending = {}
  /\ store = EmptyStore
  /\ issued = << >>
  /\ snap = << >>
  /\ runs = 0
  /\ rpc = "start"
  /\ HumidityIdle
  /\ budget = MaxPasses

\* GetRuntimeReport up to the request: the columns the flags select
BuildRequest ==
  /\ rpc = "start"
  /\ col_to_include' = ColumnsToInclude(flags)
  /\ rpc' = "call"
  /\ UNCHANGED << flags, resp, metadata, parsed, pending, store, issued,
                  snap, runs >>
  /\ UNCHANGED << loopVars, humidityVars, budget >>

\* GetRuntimeReport from the vendor's answer on; doUpdate drops its error
\* and ranges over report_data, the nil map after an error
FetchReport ==
  /\ rpc = "call"
  /\ parsed' = ParseReport(resp)
  /\ pending' = IF ParseReport(resp).kind = "ok"
                THEN DOMAIN ParseReport(resp).data ELSE {}
  /\ rpc' = IF ParseReport(resp).kind = "panic" THEN "panicked" ELSE "write"
  /\ issued' = Append(issued, [id \in {} |-> << >>])
  /\ UNCHANGED << flags, resp, metadata, col_to_include, store, snap, runs >>
  /\ UNCHANGED << loopVars, humidityVars, budget >>

\* one iteration of the loop over report_data, in the order the map gives:
\* the points of a thermostat are built and written
WriteBatch ==
  /\ rpc = "write"
  /\ \E id \in pending :
       LET bp  == BatchPoints(id, parsed.data[id], metadata)
           old == issued[Len(issued)]
       IN  /\ store' = UpsertBatch(store, bp)
           /\ issued' = [issued EXCEPT ![Len(issued)] =
                           [x \in DOMAIN old \cup {id} |->
                              IF x = id THEN bp ELSE old[x]]]
           /\ pending' = pending \ {id}
  /\ UNCHANGED << flags, resp, metadata, col_to_include, parsed, snap,
                  runs, rpc >>
  /\ UNCHANGED << loopVars, humidityVars, budget >>

\* the loop over report_data is over: the run ends, the next one starts
FinishRun ==
  /\ rpc = "write"
  /\ pending = {}
  /\ runs < MaxRuns
  /\ runs' = runs + 1
  /\ snap' = Append(snap, store)
  /\ rpc' = IF runs + 1 < MaxRuns THEN "start" ELSE "done"
  /\ UNCHANGED << flags, resp, metadata, col_to_include, parsed, pending,
                  store, issued >>
  /\ UNCHANGED << loopVars, humidityVars, budget >>

NextReport ==
  \/ BuildRequest
  \/ FetchReport
  \/ WriteBatch
  \/ FinishRun

SpecReport == InitReport /\ [][NextReport]_vars

\* ------------------------------------------------------------ catch-up
\* The main loop on a fixed date, every call and every write succeeding,
\* from a valid watermark up to MaxGapDays days before yesterday.
MaxGapDays == 50

CatchUpFiles ==
  { WatermarkBytes(Format(Yesterday(StartClock) - 24 * k)) : k \in 1..MaxGapDays }

InitCatchUp ==
  /\ InitLoopFrom(CatchUpFiles)
  /\ ReportIdle
  /\ HumidityIdle
  /\ budget = MaxGapDays + 1

NextCatchUp ==
  \/ Plan
  \/ GetThermostatsOk
  \/ GetRuntimeReportOk
  \/ WriteOk
  \/ WriteFileOpen
  \/ WriteFileWrite
  \/ Sleep

\* a planning pass, told by its guard and its counter: the steps of
\* NextCatchUp of this form are the steps of Plan
PlanTaken ==
  /\ pc = "plan"
  /\ passes < budget
  /\ passes' = passes + 1

\* a step of doUpdate or of the rest of the pass, told by its place and by
\* what it changes: the steps of NextCatchUp of this form are the steps of
\* GetThermostatsOk, GetRuntimeReportOk, WriteOk, WriteFileOpen,
\* WriteFileWrite and Sleep, and one of them is enabled at each such place
PassStep ==
  /\ pc \in Running \ {"plan"}
  /\ \E p \in Running, w \in SUBSET Thermostats :
       /\ pc' = p
       /\ written' = w
       /\ << p, w >> # << pc, written >>

\* the process takes its next step as long as it has one
SpecCatchUp ==
  /\ InitCatchUp
  /\ [][NextCatchUp]_vars
  /\ WF_passes(PlanTaken)
  /\ WF_<< pc, written >>(PassStep)

\* ------------------------------------------------------------ humidity call
\* outdoor temperatures from -MaxTempF to MaxTempF degrees, in tenths
MaxTempF == 70

InitHumidity ==
  /\ file = Missing
  /\ InitLoop
  /\ ReportIdle
  /\ budget = MaxPasses
  /\ tempF \in Degrees(-MaxTempF)..Degrees(MaxTempF)
  /\ recommendation = 0
  /\ hpc = "call"

\* one call of IndoorHumidityRecommendation
Recommend ==
  /\ hpc = "call"
  /\ recommendation' = IndoorHumidityRecommendation(tempF)
  /\ hpc' = "returned"
  /\ UNCHANGED << tempF, loopVars, reportVars, budget >>

NextHumidity == Recommend

SpecHumidity == InitHumidity /\ [][NextHumidity]_vars

\* ------------------------------------------------------------ properties
\* the step is the operation x of the process (a clock tick keeps op)
Did(x) == op' = x /\ ticks' = ticks

\* a window has been planned in the current pass
PlannedPcs == {"meta", "report", "write", "persist", "writing", "sleep"}

Planned == pc \in PlannedPcs

\* f is one line holding a calendar date
CompleteLine(f) ==
  /\ f # Missing
  /\ Stored(f).ok
  /\ f = WatermarkBytes(Format(Stored(f).t))

\* C1: the watermark file changes only in an attempt whose sink write
\* succeeded for every thermostat of the window, the value written is the
\* window's end, and a process that gave up left the file as the pass read it
C1_WatermarkOnlyAfterFullWrite ==
  [][ /\ (file' # file => written = Thermostats)
      /\ (Did("wm_write") => file' = WatermarkBytes(end_str))
      /\ (pc' = "fatal" => file' = file) ]_vars

\* C2: an error of the metadata fetch or of the runtime-report fetch fails
\* the attempt (retry or give up), and the watermark file never changes in
\* an attempt whose runtime-report fetch failed
C2_FetchErrorFailsAttempt ==
  [][ /\ (Did("meta_err") \/ Did("report_err") => pc' \in {"meta", "fatal"})
      /\ (file' # file => rr_err = "nil") ]_vars

\* C3: a window planned from a valid watermark w has start = w + 1 day,
\* end <= yesterday and end - start <= 13 days
C3_WindowBounds ==
  (Planned /\ Parse(lastData).ok) =>
     /\ Parse(start_str).t = Parse(lastData).t + 24
     /\ Parse(end_str).t <= yesterday
     /\ Parse(end_str).t - Parse(start_str).t <= 13 * 24

\* C4: when watermark + 1 day is later than yesterday the planning pass
\* reports nothing to do and makes no fetch, sink write or watermark write
C4_NoWorkNoCalls ==
  /\ [][ (Did("plan") /\ Stored(file).ok
             /\ Stored(file).t + 24 > Yesterday(now))
          => (pc' = "exit0" /\ file' = file /\ sink' = sink) ]_vars
  /\ [](pc = "exit0" => op = "plan")

C4_Witness ==
  /\ pc = "exit0"
  /\ op = "plan"
  /\ Parse(lastData).ok
  /\ left_off = yesterday

\* C5: a valid watermark in the file is never lower than the last valid
\* watermark the file held before
C5_WatermarkMonotone ==
  [][ Stored(file').ok => Stored(file').t >= high ]_vars

\* C6: a pass that reads a missing or unparsable watermark plans no window
\* and makes no fetch or write
C6_AbsentBlocks ==
  [][ (Did("plan") /\ ~Stored(file).ok)
      => (pc' \notin PlannedPcs /\ file' = file /\ sink' = sink) ]_vars

\* C7: an iteration has at most RetryAttempts attempts; the process gives
\* up only after the last one failed, with a non-zero exit status and the
\* watermark file as the pass read it
C7_BoundedRetryFatal ==
  /\ attempt <= RetryAttempts
  /\ pc = "fatal" =>
       /\ attempt = RetryAttempts
       /\ op \in {"meta_err", "sink_err"}
       /\ exitCode \notin {0, NoExit}
       /\ TrimSpace(ReadFile(file)) = lastData

C7_Witness ==
  /\ pc = "fatal"
  /\ op = "sink_err"
  /\ written # {}
  /\ Parse(lastData).ok

\* C8: a failed sink write ends the attempt: the process gives up or starts
\* again at the metadata fetch with the same window and nothing fetched, and
\* a sink write is only issued with metadata and report fetched in its attempt
C8_WriteErrorRefetches ==
  [][ /\ (Did("sink_err") =>
            \/ pc' = "fatal"
            \/ /\ pc' = "meta"
               /\ thermostat_metadata' = NotFetched
               /\ report_data' = NotFetched
               /\ start_str' = start_str
               /\ end_str' = end_str)
      /\ (Did("sink_ok") \/ Did("sink_err") =>
            /\ thermostat_metadata # NotFetched
            /\ report_data # NotFetched
            /\ rr_err = "nil") ]_vars

C8_Witness ==
  /\ op = "sink_err"
  /\ pc = "meta"
  /\ attempt = 2
  /\ sink # {}
  /\ thermostat_metadata = NotFetched

\* C9: the run after a crash that came when the sink writes of the window
\* were made and the watermark was not yet persisted plans, on the same
\* day, the window of the crashed run, same start and same end, and writes
\* the watermark only after it has fetched the report and written it again
C9_SameWindow ==
  /\ []( (crashWin.phase = "resumed" /\ yesterday = crashWin.yesterday) =>
          /\ start_str = crashWin.start
          /\ end_str = crashWin.end )
  /\ [][ (crashWin.phase = "resumed" /\ Did("wm_open")) =>
          (rr_err = "nil" /\ written # {}) ]_vars

\* C10: once the file has held a watermark, whatever a planning step can
\* read from it is one complete line with a date
C10_AtomicOverwrite ==
  (high # -1 /\ pc \in {"plan"} \cup Stopped) => CompleteLine(file)

\* C11: a pass that finds no window goes to sleep and the process keeps
\* running
C11_SleepsWhenCaughtUp ==
  [][ (Did("plan") /\ ~Before(left_off', yesterday'))
      => (pc' = "sleep" /\ exitCode' = NoExit) ]_vars

\* C12: the window of every completed iteration starts on the day after the
\* watermark the file held last, and the sink holds its data for every
\* thermostat
C12_ContiguousWindows ==
  [][ (Did("wm_write") /\ high # -1) =>
        /\ Parse(start_str).t = high + 24
        /\ \A t \in Thermostats : << t, start_str, end_str >> \in sink ]_vars

\* C13: the runtime-report request of an attempt carries the planned window
C13_RequestCarriesWindow ==
  request # NoRequest =>
     /\ request.StartDate = start_str
     /\ request.EndDate = end_str

\* C22: a successful write is the one batch of one thermostat of the report
\* not yet written in the attempt and puts the thermostat's records of the
\* planned window into the sink, the loop ends with every thermostat
\* written, and a failed write ends the attempt without a further write:
\* the sink keeps what it has and a retry starts with nothing written
C22_OneWritePerThermostat ==
  [][ /\ (Did("sink_ok") =>
            \E t \in report_data \ written :
              /\ written' = written \cup {t}
              /\ sink' = sink \cup {<< t, start_str, end_str >>})
      /\ (pc = "write" /\ pc' = "persist" =>
            /\ written' = report_data
            /\ \A t \in report_data : << t, start_str, end_str >> \in sink')
      /\ (Did("sink_err") =>
            /\ sink' = sink
            /\ pc' \in {"meta", "fatal"}
            /\ pc' = "meta" =>
                 written' = {} /\ start_str' = start_str
                 /\ end_str' = end_str) ]_vars

\* C24: a failed watermark write neither ends the process nor is repeated,
\* the file holds what the pass read from it, and a planning step on that
\* file starts its window where the failed iteration started
C24_PersistFailureKeepsFile ==
  [][ Did("wm_err") =>
        /\ pc' = "sleep"
        /\ exitCode' = NoExit
        /\ TrimSpace(ReadFile(file')) = lastData
        /\ Format(PlanWindow(LeftOff(TrimSpace(ReadFile(file'))),
                             yesterday).start) = start_str ]_vars

\* C23: every watermark write of the catch-up leaves a watermark later
\* than the one the pass read and not later than yesterday, and in the end
\* the watermark is yesterday and the planner has found nothing to do
C23_CatchUp ==
  /\ [][ Did("wm_write") =>
           /\ Stored(file').ok
           /\ Stored(file').t > left_off
           /\ Stored(file').t <= yesterday ]_vars
  /\ <>( /\ pc = "exit0"
         /\ op = "plan"
         /\ Stored(file).ok
         /\ Stored(file).t = Yesterday(now) )

\* a catch-up of four windows has ended with nothing to do
C23_Witness ==
  /\ pc = "exit0"
  /\ passes = 5
  /\ Stored(file).ok
  /\ Stored(file).t = Yesterday(now)
  /\ sink = {<< t, RequestDate, RequestDate >> : t \in Thermostats}

\* ------------------------------------------------------------ report properties
\* the points issued so far: run, thermostat, position in the batch
IssuedSlots ==
  UNION { UNION { { << r, id, i >> : i \in 1..Len(issued[r][id]) } :
                  id \in DOMAIN issued[r] } : r \in 1..Len(issued) }

SlotPoint(sl) == issued[sl[1]][sl[2]][sl[3]]

SlotEntry(sl) == parsed.data[sl[2]][sl[3]]

\* the report of thermostat id in the answer r, the later one of two
ReportOf(r, id) ==
  LET n == Len(r.ReportList)
  IN  r.ReportList[CHOOSE i \in 1..n :
        /\ r.ReportList[i].ThermostatIdentifier = id
        /\ \A j \in 1..n :
             r.ReportList[j].ThermostatIdentifier = id => j <= i]

\* an answer with an unparsable start date, an empty row list, a row of
\* too few fields or a row whose date and time do not parse
Malformed(r) ==
  /\ ~r.fails
  /\ \/ ~Parse(r.StartDate).ok
     \/ \E k \in 1..Len(r.ReportList) :
          \/ Len(r.ReportList[k].RowList) = 0
          \/ \E i \in 1..Len(r.ReportList[k].RowList) :
               LET f == Split(r.ReportList[k].RowList[i])
               IN  \/ Len(f) < 2
                   \/ Len(f) - 2 < Len(Split(r.Columns))
                   \/ ~ParseDateTime(DateTimeText(f[1], f[2])).ok

\* C14: a malformed runtime report makes the fetch return an error: no
\* panic, and no entries built from the malformed answer
C14_MalformedFailsFetch ==
  (parsed.kind # "none" /\ Malformed(resp)) => parsed.kind = "error"

\* C15: the requested columns hold every core column, and each optional
\* column exactly when its flag is set
C15_ColumnsFollowFlags ==
  LET has(c) == \E i \in 1..Len(col_to_include) : col_to_include[i] = <<c>>
  IN  col_to_include # << >> =>
        /\ \A c \in {"zoneCoolTemp", "zoneHeatTemp", "zoneAveTemp",
                     "zoneHumidity", "outdoorTemp", "outdoorHumidity",
                     "fan"} : has(c)
        /\ \A fc \in { <<"WriteHumidifier", "humidifier">>,
                       <<"WriteAuxHeat1", "auxHeat1">>,
                       <<"WriteAuxHeat2", "auxHeat2">>,
                       <<"WriteHeatPump1", "compHeat1">>,
                       <<"WriteHeatPump2", "compHeat2">>,
                       <<"WriteCool1", "compCool1">>,
                       <<"WriteCool2", "compCool2">> } :
             has(fc[2]) <=> flags[fc[1]]

\* the exact difference of two instants
Apart(a, b) == TNorm(a.d - b.d, a.s - b.s, a.n - b.n)

\* C16: for each thermostat the first row's timestamp is the parsed
\* StartDate plus StartInterval times five minutes, and two rows'
\* timestamps are as far apart as their local times
C16_RowTimestamps ==
  parsed.kind = "ok" =>
    \A id \in DOMAIN parsed.data :
      LET e    == parsed.data[id]
          rows == ReportOf(resp, id).RowList
      IN  /\ e[1].ReportTime =
               TimeAdd([d |-> Parse(resp.StartDate).t \div 24, s |-> 0,
                        n |-> 0], Minutes(resp.StartInterval * 5))
          /\ \A i, j \in 1..Len(e) :
               Apart(e[i].ReportTime, e[j].ReportTime) =
                 Apart(RowTime(rows[i]), RowTime(rows[j]))

\* every issued point holds, for each column of the table that its entry
\* has, the field of the table with the type of the table
Translated(table) ==
  \A sl \in IssuedSlots :
    SlotPoint(sl) # NoPoint =>
      \A tr \in table :
        tr[1] \in DOMAIN SlotEntry(sl).DataFields =>
          /\ tr[2] \in DOMAIN SlotPoint(sl).fields
          /\ SlotPoint(sl).fields[tr[2]].type = tr[3]

RunTimeFields ==
  { << <<"auxHeat1">>, "aux_heat_1_run_time_s", "int" >>,
    << <<"auxHeat2">>, "aux_heat_2_run_time_s", "int" >>,
    << <<"compCool1">>, "cool_1_run_time_s", "int" >>,
    << <<"compCool2">>, "cool_2_run_time_s", "int" >>,
    << <<"compHeat1">>, "heat_pump_1_run_time_s", "int" >>,
    << <<"compHeat2">>, "heat_pump_2_run_time_s", "int" >>,
    << <<"humidifier">>, "humidifier_run_time_s", "int" >>,
    << <<"fan">>, "fan_run_time_s", "int" >>,
    << <<"hvacMode">>, "HVAC_mode", "string" >> }

\* C17: the run-time columns map to *_run_time_s integers,
\* hvacMode to HVAC_mode, and the climate columns to floats named
\* setpoint_cool_F, setpoint_heat_F, temperature_F, humidity_pct,
\* outdoor_temperature_F and outdoor_humidity_pct
C17_PlainFieldNames ==
  Translated(RunTimeFields \cup
    { << <<"zoneCoolTemp">>, "setpoint_cool_F", "float" >>,
      << <<"zoneHeatTemp">>, "setpoint_heat_F", "float" >>,
      << <<"zoneAveTemp">>, "temperature_F", "float" >>,
      << <<"zoneHumidity">>, "humidity_pct", "float" >>,
      << <<"outdoorTemp">>, "outdoor_temperature_F", "float" >>,
      << <<"outdoorHumidity">>, "outdoor_humidity_pct", "float" >> })

UnitFields ==
  { << <<"zoneCoolTemp">>, "setpoint_cool_°F", "float" >>,
    << <<"zoneHeatTemp">>, "setpoint_heat_°F", "float" >>,
    << <<"zoneAveTemp">>, "temperature_°F", "float" >>,
    << <<"zoneHumidity">>, "humidity_%", "float" >>,
    << <<"outdoorTemp">>, "outdoor_temperature_°F", "float" >>,
    << <<"outdoorHumidity">>, "outdoor_humidity_%", "float" >> }

KnownColumns == {tr[1] : tr \in RunTimeFields \cup UnitFields}

\* C18: a column outside the table adds no field and stops nothing: a
\* point has one field for each known column of its entry and no other,
\* and an entry with a known column and a time the sink takes has a point
C18_UnknownColumnDropped ==
  \A sl \in IssuedSlots :
    LET df    == SlotEntry(sl).DataFields
        known == DOMAIN df \cap KnownColumns
    IN  /\ SlotPoint(sl) # NoPoint =>
             Cardinality(DOMAIN SlotPoint(sl).fields) = Cardinality(known)
        /\ (known # {} /\ TimeInRange(SlotEntry(sl).ReportTime)) =>
             SlotPoint(sl) # NoPoint

\* an entry with a known and an unknown column has been written as a point
C18_Witness ==
  /\ rpc = "done"
  /\ \E sl \in IssuedSlots :
       /\ DOMAIN SlotEntry(sl).DataFields \ KnownColumns # {}
       /\ DOMAIN SlotEntry(sl).DataFields \cap KnownColumns # {}
       /\ SlotPoint(sl) # NoPoint

\* C19: a numeric column whose raw value does not parse gives its field
\* the value zero
C19_UnparsableIsZero ==
  \A sl \in IssuedSlots :
    SlotPoint(sl) # NoPoint =>
      \A tr \in RunTimeFields \cup UnitFields :
        LET df == SlotEntry(sl).DataFields
        IN  (tr[1] \in DOMAIN df /\ tr[3] # "string") =>
              /\ tr[2] \in DOMAIN SlotPoint(sl).fields
              /\ (tr[3] = "int" /\ Atoi(df[tr[1]]).err # "nil") =>
                   SlotPoint(sl).fields[tr[2]] = IntValue(FALSE, <<"0">>)
              /\ (tr[3] = "float" /\ ParseFloat(df[tr[1]]).err # "nil") =>
                   SlotPoint(sl).fields[tr[2]] = FloatValue(FALSE, <<>>, <<>>)

\* ------------------------------------------------------------ humidity properties
\* the bands of the recommendation, lowest temperature first
Bands ==
  << << -10, 20 >>, << 0, 25 >>, << 10, 30 >>, << 20, 35 >>, << 30, 40 >>,
     << 40, 45 >>, << 50, 50 >> >>

\* C21: the recommendation is 15 below -10 degrees and else the value of
\* the highest band whose lower end the temperature reaches; it lies in
\* 15..50 and no lower temperature has a greater one
C21_StepFunction ==
  hpc = "returned" =>
    LET reached == {i \in 1..Len(Bands) : tempF >= Bands[i][1] * 10}
    IN  /\ recommendation =
             IF reached = {} THEN 15
             ELSE Bands[CHOOSE i \in reached : \A j \in reached : j <= i][2]
        /\ recommendation \in 15..50
        /\ \A u \in Degrees(-MaxTempF)..tempF :
             IndoorHumidityRecommendation(u) <= recommendation

\* the call has returned 50 at the boundary of 50 degrees
C21_Witness == hpc = "returned" /\ tempF = 500 /\ recommendation = 50

TypeOK ==
  /\ pc \in Running \cup Stopped
  /\ attempt \in 0..RetryAttempts
====
